---- MODULE Spec2Model ----
(***************************************************************************)
(* The PayPal order gateway (POST /api/paypal/create-order) of the Locket  *)
(* Photo Print front-end.  The sources hold four versions of the gateway:  *)
(*   "route"      src/src/app/api/paypal/create-order/route.ts   1 - 81    *)
(*   "part_000"   src/unnamed/part_000                           1 - 103   *)
(*   "header_66"  src/src/components/header.tsx                 66 - 160   *)
(*   "header_162" src/src/components/header.tsx                162 - 295   *)
(* They share the control flow (POST -> createPayPalOrder ->               *)
(* getPayPalAccessToken) and differ in the errors they throw and in what   *)
(* they log.  A behaviour runs one version, chosen in Init.                *)
(*                                                                         *)
(* A JavaScript string is a sequence of fragments: a literal is one        *)
(* fragment, a template literal `a ${x} b` the concatenation of its        *)
(* fragments, so that "the message contains the upstream body" can be      *)
(* asked of a message.                                                     *)
(***************************************************************************)
EXTENDS Integers, Sequences, FiniteSets, TLC

\* Number of requests that may be in flight at once.
NumRequests == 2

\* Number of clicks on "Log out" (invocations of handleSignOut).
NumSignOuts == 2

Requests == 1..NumRequests

Variants == {"route", "part_000", "header_66", "header_162"}

----------------------------------------------------------------------------
(* JavaScript values *)

Undefined == [type |-> "undefined", val |-> <<>>]
Null == [type |-> "null", val |-> <<>>]
Bool(b) == [type |-> "boolean", val |-> <<IF b THEN "true" ELSE "false">>]
Num(s) == [type |-> "number", val |-> <<s>>]
Str(s) == [type |-> "string", val |-> <<s>>]
Template(frags) == [type |-> "string", val |-> frags]

\* ToBoolean: what `!x` and `x ? a : b` test.
Truthy(v) ==
    CASE v.type = "boolean" -> v.val = <<"true">>
      [] v.type = "number" -> v.val \notin {<<"0">>, <<"NaN">>}
      [] v.type = "string" -> \E i \in 1..Len(v.val) : v.val[i] # ""
      [] v.type = "object" -> TRUE
      [] OTHER -> FALSE

\* obj.key, undefined when the object has no such property.
Get(obj, key) == IF key \in DOMAIN obj THEN obj[key] ELSE Undefined

\* a || b
Or(a, b) == IF Truthy(a) THEN a ELSE b

\* `${x}`: the fragments of String(x).
ToStringJS(v) ==
    CASE v.type = "undefined" -> <<"undefined">>
      [] v.type = "null" -> <<"null">>
      [] OTHER -> v.val

RECURSIVE Join(_)
Join(frags) == IF frags = <<>> THEN "" ELSE Head(frags) \o Join(Tail(frags))

\* Buffer.from(s).toString('base64'): one opaque string, injective in s.
Base64(frags) == <<"base64[" \o Join(frags) \o "]">>

----------------------------------------------------------------------------
(* The environment: configuration, request bodies, the processor's answers *)

ClientId == "AZDxjDScFpQtjWTOUtWKbyN_bDt4OgqaF4eYXlewfBP4"
ClientSecret == "EGnHDxD_qRPdaLdZz8iCr8N7_MzF-YHPTkjs6NKYQvQSBngp4PTTVWkPZRbL"

\* process.env.X: a string, or undefined when the variable is not set.
ClientIdValues == {Undefined, Str(ClientId)}
ClientSecretValues == {Undefined, Str(""), Str(ClientSecret)}

\* PAYPAL_CLIENT_ID.slice(-4)
SliceLast4(s) == IF s = ClientId THEN "fBP4" ELSE s

\* What `await request.json()` destructures: json is FALSE when the body
\* does not parse (request.json() rejects); an absent field is undefined.
Body(amount, description, requiresShipping) ==
    [json |-> TRUE, amount |-> amount, description |-> description,
     requiresShipping |-> requiresShipping]

NoBody == [json |-> FALSE, amount |-> Undefined, description |-> Undefined,
           requiresShipping |-> Undefined]

InvalidBodies ==
    { Body(Undefined, Str("prints"), Bool(TRUE)),
      Body(Str("10.00"), Str(""), Bool(FALSE)),
      Body(Str(""), Undefined, Undefined) }

ValidBodies ==
    { Body(Str("10.00"), Str("4x6 prints"), Bool(TRUE)),
      Body(Str("10.00"), Str("4x6 prints"), Bool(FALSE)),
      Body(Str("5.00"), Str("locket print"), Undefined),
      Body(Num("7.5"), Str("4x6 prints"), Num("0")) }

RequestBodies == {NoBody} \cup InvalidBodies \cup ValidBodies

\* An answer of fetch: the promise rejects (a network failure), or resolves
\* to a response with response.ok and a body text.
NoResponse == [kind |-> "none", ok |-> FALSE, text |-> ""]
Rejected == [kind |-> "rejected", ok |-> FALSE, text |-> ""]
Response(ok, text) == [kind |-> "response", ok |-> ok, text |-> text]

InvalidClientBody ==
    "{\"error\":\"invalid_client\",\"error_description\":\"Client Authentication failed\"}"
GrantTypeBody ==
    "{\"error\":\"unsupported_grant_type\",\"error_description\":\"Grant Type is NULL\"}"
UnavailableBody == "Service Unavailable"

TokenErrorBodies == {InvalidClientBody, GrantTypeBody, UnavailableBody}

\* The processor issues a fresh token at each credential exchange.
IssuedToken(n) == "A21AA" \o ToString(n)
TokenBody(n) ==
    "{\"access_token\":\"" \o IssuedToken(n) \o "\",\"token_type\":\"Bearer\"}"

HtmlBody == "<html>502 Bad Gateway</html>"

UnprocessableBody ==
    "{\"name\":\"UNPROCESSABLE_ENTITY\",\"message\":\"The requested action could not be performed.\",\"details\":[{\"description\":\"The amount is invalid.\"}]}"
InternalErrorBody ==
    "{\"name\":\"INTERNAL_SERVER_ERROR\",\"message\":\"An internal server error has occurred.\"}"

OrderErrorBodies == {UnprocessableBody, InternalErrorBody, UnavailableBody}

CreatedBody == "{\"id\":\"ORDER123\",\"status\":\"CREATED\"}"
PayerActionBody ==
    "{\"id\":\"ORDER456\",\"status\":\"PAYER_ACTION_REQUIRED\",\"error\":\"none\",\"links\":\"https://www.sandbox.paypal.com/checkoutnow?token=ORDER456\"}"

OrderBodies == {CreatedBody, PayerActionBody}

\* JSON.parse / response.json(): ok is FALSE when the text is not JSON
\* (a SyntaxError is thrown).  A nested property is keyed by its path.
JSONParse(text) ==
    CASE text = InvalidClientBody ->
           [ok |-> TRUE,
            value |-> [error |-> Str("invalid_client"),
                       error_description |-> Str("Client Authentication failed")]]
      [] text = GrantTypeBody ->
           [ok |-> TRUE,
            value |-> [error |-> Str("unsupported_grant_type"),
                       error_description |-> Str("Grant Type is NULL")]]
      [] text = UnprocessableBody ->
           [ok |-> TRUE,
            value |-> [name |-> Str("UNPROCESSABLE_ENTITY"),
                       message |-> Str("The requested action could not be performed."),
                       details0description |-> Str("The amount is invalid.")]]
      [] text = InternalErrorBody ->
           [ok |-> TRUE,
            value |-> [name |-> Str("INTERNAL_SERVER_ERROR"),
                       message |-> Str("An internal server error has occurred.")]]
      [] text = CreatedBody ->
           [ok |-> TRUE,
            value |-> [id |-> Str("ORDER123"), status |-> Str("CREATED")]]
      [] text = PayerActionBody ->
           [ok |-> TRUE,
            value |-> [id |-> Str("ORDER456"), status |-> Str("PAYER_ACTION_REQUIRED"),
                       error |-> Str("none"),
                       links |-> Str("https://www.sandbox.paypal.com/checkoutnow?token=ORDER456")]]
      [] \E n \in Requests : text = TokenBody(n) ->
           [ok |-> TRUE,
            value |-> [access_token |-> Str(IssuedToken(CHOOSE n \in Requests : text = TokenBody(n))),
                       token_type |-> Str("Bearer")]]
      [] OTHER -> [ok |-> FALSE, value |-> [name |-> Str("SyntaxError")]]

\* The message of the SyntaxError of JSON.parse, response.json() and
\* request.json(), and of the TypeError of a fetch that rejects.
SyntaxErrorMessage == <<"Unexpected token in JSON at position 0">>
FetchFailedMessage == <<"fetch failed">>

----------------------------------------------------------------------------
(* getPayPalAccessToken *)

VARIABLES variant, PAYPAL_CLIENT_ID, PAYPAL_CLIENT_SECRET,
          pc, request, tokenResponse, orderResponse, calls, logs, response

\* The Header component: the identity of useAuth(), the route of the
\* router, what the header shows, the invocations of handleSignOut and the
\* browser console.
VARIABLES user, route, view, signOuts, headerLogs

gatewayVars == <<variant, PAYPAL_CLIENT_ID, PAYPAL_CLIENT_SECRET,
                 pc, request, tokenResponse, orderResponse, calls, logs, response>>

headerVars == <<user, route, view, signOuts, headerLogs>>

vars == <<gatewayVars, headerVars>>

base == "https://api-m.sandbox.paypal.com"

\* The check with the secret forgotten: if (!PAYPAL_CLIENT_ID)
CredentialsMissingIdOnly == ~Truthy(PAYPAL_CLIENT_ID)

\* if (!PAYPAL_CLIENT_ID || !PAYPAL_CLIENT_SECRET)
CredentialsMissing == ~Truthy(PAYPAL_CLIENT_ID) \/ ~Truthy(PAYPAL_CLIENT_SECRET)

\* The message of the Error thrown when the credentials are missing.
CredentialsErrorMessage(v) ==
    CASE v = "route" -> <<"MISSING_PAYPAL_API_CREDENTIALS">>
      [] v = "header_162" ->
           <<"PayPal API credentials (PAYPAL_CLIENT_ID or PAYPAL_SECRET) are not configured on the server. Please check your Netlify environment variables.">>
      [] OTHER -> <<"PayPal API credentials are not configured on the server.">>

\* What console.error writes before that throw.
CredentialsLogs(v) ==
    CASE v = "route" -> <<>>
      [] v = "header_162" ->
           << <<"MISSING_PAYPAL_API_CREDENTIALS:">> \o CredentialsErrorMessage(v) >>
      [] OTHER ->
           << <<"MISSING_PAYPAL_API_CREDENTIALS: Make sure PAYPAL_CLIENT_SECRET and NEXT_PUBLIC_PAYPAL_CLIENT_ID are set in your environment variables.">> >>

\* console.log(`Attempting PayPal auth with Client ID ending in ...`)
AuthAttemptLogs(v) ==
    CASE v = "part_000" ->
           << <<"Attempting PayPal auth with Client ID ending in ...",
                SliceLast4(Join(PAYPAL_CLIENT_ID.val))>> >>
      [] v = "header_162" ->
           << <<"Attempting PayPal auth with Client ID ending in ...",
                SliceLast4(Join(PAYPAL_CLIENT_ID.val)), " for ", "sandbox", " environment.">> >>
      [] OTHER -> <<>>

\* Authorization: `Basic ${auth}`
BasicAuthorization ==
    <<"Basic ">> \o Base64(PAYPAL_CLIENT_ID.val \o <<":">> \o PAYPAL_CLIENT_SECRET.val)

\* fetch(`${base}/v1/oauth2/token`, ...)
TokenCall(v) ==
    [kind |-> "token",
     url |-> <<base, "/v1/oauth2/token">>,
     method |-> "POST",
     body |-> "grant_type=client_credentials",
     contentType |-> IF v = "route" THEN "" ELSE "application/x-www-form-urlencoded",
     authorization |-> BasicAuthorization]

InvalidClientMessage(v) ==
    CASE v = "part_000" ->
           <<"PayPal client authentication failed. Please check server configuration and credentials.">>
      [] v = "header_66" ->
           <<"PayPal client authentication failed. Please check server configuration.">>
      [] v = "header_162" ->
           <<"PayPal client authentication failed. Please check server configuration and credentials on Netlify.">>
      [] OTHER -> <<>>

InvalidClientLog(v) ==
    CASE v = "part_000" ->
           <<"PayPal authentication failed: 'invalid_client'. This is almost always due to an incorrect PAYPAL_CLIENT_ID or PAYPAL_CLIENT_SECRET in your environment variables.">>
      [] v = "header_66" ->
           <<"PayPal authentication failed: 'invalid_client'. This is likely due to incorrect PAYPAL_CLIENT_ID or PAYPAL_CLIENT_SECRET environment variables in your deployment environment (e.g., Netlify).">>
      [] v = "header_162" ->
           <<"PayPal authentication failed: 'invalid_client'. This is almost always due to an incorrect PAYPAL_CLIENT_ID or PAYPAL_SECRET in your environment variables.">>
      [] OTHER -> <<>>

\* The try block of the !response.ok branch: whether it throws, the message
\* of what it throws, and what it logs on the way.  "route" has no try block.
TokenTry(v, errorBody) ==
    LET errorJson == JSONParse(errorBody) IN
    IF v = "route" THEN [threw |-> FALSE, message |-> <<>>, logs |-> <<>>]
    ELSE IF ~errorJson.ok
         THEN [threw |-> TRUE, message |-> SyntaxErrorMessage, logs |-> <<>>]
    ELSE IF Get(errorJson.value, "error") = Str("invalid_client")
         THEN [threw |-> TRUE, message |-> InvalidClientMessage(v),
               logs |-> <<InvalidClientLog(v)>>]
    ELSE IF v = "header_162"
         THEN [threw |-> TRUE,
               message |-> <<"Failed to get access token from PayPal: ">>
                           \o Or(Get(errorJson.value, "error_description"),
                                 Or(Get(errorJson.value, "error"),
                                    Str("Unknown PayPal error"))).val
                           \o <<". Check server logs for details.">>,
               logs |-> <<>>]
    ELSE [threw |-> FALSE, message |-> <<>>, logs |-> <<>>]

\* The catch (e) of that try block: "part_000" and "header_66" swallow what
\* was thrown and fall through; "header_162" logs it and throws the raw body.
TokenCatch(v, errorBody, e) ==
    IF v = "header_162"
    THEN [threw |-> TRUE,
          message |-> <<"Failed to get access token from PayPal. Raw error: ",
                        errorBody, ". Check server logs for details.">>,
          logs |-> << <<"Failed to parse PayPal error response as JSON:">> \o e >>]
    ELSE [threw |-> FALSE, message |-> <<>>, logs |-> <<>>]

\* The throw that follows the try/catch.
TokenGenericMessage(v, errorBody) ==
    CASE v = "route" -> <<"Failed to get access token: ", errorBody>>
      [] v = "part_000" ->
           <<"Failed to get access token from PayPal. Check server logs for details.">>
      [] OTHER -> <<"Failed to get access token from PayPal.">>

\* if (!response.ok) { ... }: the message of the Error that leaves
\* getPayPalAccessToken, and the lines logged.
TokenFailure(v, errorBody) ==
    LET tried == TokenTry(v, errorBody)
        caught == IF tried.threw THEN TokenCatch(v, errorBody, tried.message)
                  ELSE [threw |-> FALSE, message |-> <<>>, logs |-> <<>>]
        before == CASE v = "part_000" -> << <<"PayPal API Error Response:", errorBody>> >>
                    [] v = "header_162" ->
                         << <<"PayPal Access Token API Error Response:", errorBody>> >>
                    [] OTHER -> <<>>
        after == IF v = "header_66" /\ ~caught.threw
                 THEN << <<"Failed to get PayPal access token:", errorBody>> >>
                 ELSE <<>>
    IN [message |-> IF caught.threw THEN caught.message
                    ELSE TokenGenericMessage(v, errorBody),
        logs |-> before \o tried.logs \o caught.logs \o after]

\* The !response.ok test left out.
TokenResponseOkUnchecked(a) == TRUE

\* response.ok of the token response: if (!response.ok) { ... throw }
TokenResponseOk(a) == a.ok

TokenSuccessLogs(v) ==
    IF v \in {"part_000", "header_162"}
    THEN << <<"Successfully obtained PayPal access token.">> >>
    ELSE <<>>

\* A token kept from one exchange and reused by the next requests.
AccessTokenCached(r, data) ==
    IF \E q \in Requests \ {r} : tokenResponse[q].ok /\ JSONParse(tokenResponse[q].text).ok
    THEN LET q == CHOOSE q \in Requests \ {r} :
                     tokenResponse[q].ok /\ JSONParse(tokenResponse[q].text).ok
         IN Get(JSONParse(tokenResponse[q].text).value, "access_token")
    ELSE Get(data, "access_token")

\* return data.access_token
AccessToken(r, data) == Get(data, "access_token")

----------------------------------------------------------------------------
(* createPayPalOrder *)

\* The two branches exchanged.
ShippingPreferenceSwapped(requiresShipping) ==
    IF Truthy(requiresShipping) THEN "NO_SHIPPING" ELSE "GET_FROM_FILE"

\* requiresShipping ? 'GET_FROM_FILE' : 'NO_SHIPPING'
ShippingPreference(requiresShipping) ==
    IF Truthy(requiresShipping) THEN "GET_FROM_FILE" ELSE "NO_SHIPPING"

\* const body = { intent, purchase_units: [{ amount, description }],
\*                application_context }
OrderRequestBody(amount, description, requiresShipping) ==
    [intent |-> "CAPTURE",
     currency_code |-> "USD",
     value |-> amount,
     description |-> description,
     shipping_preference |-> ShippingPreference(requiresShipping)]

\* fetch(`${base}/v2/checkout/orders`, ...)
OrderCall(accessToken, body) ==
    [kind |-> "order",
     url |-> <<base, "/v2/checkout/orders">>,
     method |-> "POST",
     body |-> body,
     contentType |-> "application/json",
     authorization |-> <<"Bearer ">> \o ToStringJS(accessToken)]

\* response.ok of the order response: if (!response.ok) { ... throw }
OrderResponseOk(a) == a.ok

\* The try block of the !response.ok branch of "header_162".
OrderTry(v, errorData) ==
    LET errorJson == JSONParse(errorData) IN
    IF v # "header_162" THEN [threw |-> FALSE, message |-> <<>>]
    ELSE IF ~errorJson.ok THEN [threw |-> TRUE, message |-> SyntaxErrorMessage]
    ELSE [threw |-> TRUE,
          message |-> <<"Failed to create order with PayPal: ">>
                      \o Or(Get(errorJson.value, "details0description"),
                            Or(Get(errorJson.value, "message"),
                               Str("Unknown error"))).val
                      \o <<".">>]

\* Its catch (e): throws the raw body, whatever was caught.
OrderCatch(v, errorData, e) ==
    [threw |-> TRUE,
     message |-> <<"Failed to create order with PayPal. Raw error: ", errorData, ".">>]

\* if (!response.ok) { ... }: the message of the Error that leaves
\* createPayPalOrder, and the lines logged.
OrderFailure(v, errorData) ==
    LET tried == OrderTry(v, errorData)
        caught == IF tried.threw THEN OrderCatch(v, errorData, tried.message)
                  ELSE [threw |-> FALSE, message |-> <<>>]
    IN [message |-> IF caught.threw THEN caught.message
                    ELSE IF v = "route" THEN <<"Failed to create order: ", errorData>>
                    ELSE <<"Failed to create order with PayPal.">>,
        logs |-> IF v = "route" THEN <<>>
                 ELSE << <<"Failed to create PayPal order:", errorData>> >>]

\* console.log("Successfully created PayPal order:", orderData.id)
OrderSuccessLogs(v, orderData) ==
    IF v = "header_162"
    THEN << <<"Successfully created PayPal order:">> \o Get(orderData, "id").val >>
    ELSE <<>>

----------------------------------------------------------------------------
(* POST *)

\* NextResponse.json(data, { status })
NextResponseJson(data, status) == [status |-> status, body |-> data]

\* The check with the description forgotten: if (!amount)
ValidationFailsAmountOnly(b) == ~Truthy(b.amount)

\* if (!amount || !description)
ValidationFails(b) == ~Truthy(b.amount) \/ ~Truthy(b.description)

ValidationResponse ==
    NextResponseJson([error |-> Str("Missing amount or description in request body")], 400)

\* A response rebuilt from the fields the gateway knows of.
SuccessResponseIdStatus(order) ==
    NextResponseJson([id |-> Get(order, "id"), status |-> Get(order, "status")], 200)

\* return NextResponse.json(order)
SuccessResponse(order) == NextResponseJson(order, 200)

\* The catch with { status: 500 } left out.
CatchResponseNoStatus(message) == NextResponseJson([error |-> Template(message)], 200)

\* catch (error): every value thrown in the gateway is an Error, so the
\* message is error.message.
CatchResponse(message) == NextResponseJson([error |-> Template(message)], 500)

CatchLogs(v, message) ==
    CASE v = "route" -> << <<"Failed to create PayPal order:">> \o message >>
      [] v = "header_162" ->
           << <<"Error in POST /api/paypal/create-order:">> \o message >>
      [] OTHER -> <<>>

----------------------------------------------------------------------------
(* Header *)

SignOuts == 1..NumSignOuts

\* An identity of useAuth(): { email, displayName, photoURL }.
Identity(email, displayName, photoURL) ==
    [type |-> "object", val |-> <<>>, email |-> email,
     displayName |-> displayName, photoURL |-> photoURL]

Identities ==
    { Identity(Str("a@b.com"), Null, Null),
      Identity(Str("zoe@example.com"), Str("Zoe"),
               Str("https://lh3.googleusercontent.com/a/zoe")) }

\* const { user } = useAuth(): an identity, or null when nobody is signed in.
Users == {Null} \cup Identities

\* email.charAt(0).toUpperCase()
UpperInitial(s) ==
    CASE s = "a@b.com" -> "A"
      [] s = "zoe@example.com" -> "Z"
      [] OTHER -> s

\* {user ? <DropdownMenu> ... : <div> Log In, Sign Up </div>}
Render(u) ==
    IF Truthy(u)
    THEN [affordance |-> "account-menu",
          image |-> IF Truthy(u.photoURL) THEN u.photoURL ELSE Undefined,
          fallback |-> IF u.email.type = "string"
                       THEN Str(UpperInitial(Join(u.email.val)))
                       ELSE Undefined]
    ELSE [affordance |-> "log-in-sign-up", image |-> Undefined, fallback |-> Undefined]

\* An invocation of handleSignOut: where it is, how signOut(auth) settled,
\* and the routes it pushed.
NoSignOut == [pc |-> "idle", outcome |-> "none", pushed |-> <<>>]

SignOutErrorMessage == <<"Firebase: Error (auth/network-request-failed).">>

\* router.push('/') moved behind the try/catch.
AfterSignOutAlwaysPush(outcome) ==
    [pushed |-> <<"/">>,
     logs |-> IF outcome = "rejected"
              THEN << <<"Error signing out: ">> \o SignOutErrorMessage >>
              ELSE <<>>]

\* try { await signOut(auth); router.push('/') } catch (error) { console.error }
\* after signOut(auth) settled: the routes pushed and the lines logged.
AfterSignOut(outcome) ==
    [pushed |-> IF outcome = "resolved" THEN <<"/">> ELSE <<>>,
     logs |-> IF outcome = "rejected"
              THEN << <<"Error signing out: ">> \o SignOutErrorMessage >>
              ELSE <<>>]

\* The identity the provider reports once signOut(auth) settled: none when
\* the session was terminated, the one it had when the termination failed.
IdentityAfterSignOut(u, outcome) == IF outcome = "resolved" THEN Null ELSE u

\* Nobody signed in, the landing route shown, "Log out" never clicked.
HeaderIdle ==
    /\ user = Null
    /\ route = "/"
    /\ view = Render(Null)
    /\ signOuts = [k \in SignOuts |-> NoSignOut]
    /\ headerLogs = <<>>

----------------------------------------------------------------------------
(* The state machine: a request runs from one await to the next *)

Init ==
    /\ variant \in Variants
    /\ PAYPAL_CLIENT_ID \in ClientIdValues
    /\ PAYPAL_CLIENT_SECRET \in ClientSecretValues
    /\ pc = [r \in Requests |-> "idle"]
    /\ request = [r \in Requests |-> NoBody]
    /\ tokenResponse = [r \in Requests |-> NoResponse]
    /\ orderResponse = [r \in Requests |-> NoResponse]
    /\ calls = [r \in Requests |-> <<>>]
    /\ logs = [r \in Requests |-> <<>>]
    /\ response = [r \in Requests |-> <<>>]
    /\ HeaderIdle

\* The handler returns a response.
Finish(r, resp, lines) ==
    /\ response' = [response EXCEPT ![r] = Append(@, resp)]
    /\ logs' = [logs EXCEPT ![r] = @ \o lines]
    /\ pc' = [pc EXCEPT ![r] = "done"]
    /\ UNCHANGED calls

\* An Error reaches the catch of POST.
Fail(r, message, lines) ==
    Finish(r, CatchResponse(message), lines \o CatchLogs(variant, message))

\* The handler suspends at a fetch.
Fetch(r, call, lines, at) ==
    /\ calls' = [calls EXCEPT ![r] = Append(@, call)]
    /\ logs' = [logs EXCEPT ![r] = @ \o lines]
    /\ pc' = [pc EXCEPT ![r] = at]
    /\ UNCHANGED response

\* POST up to the token fetch of getPayPalAccessToken.
POST(r) ==
    /\ pc[r] = "idle"
    /\ \E b \in RequestBodies :
         /\ request' = [request EXCEPT ![r] = b]
         /\ IF ~b.json THEN Fail(r, SyntaxErrorMessage, <<>>)
            ELSE IF ValidationFails(b) THEN Finish(r, ValidationResponse, <<>>)
            ELSE IF CredentialsMissing
                 THEN Fail(r, CredentialsErrorMessage(variant), CredentialsLogs(variant))
            ELSE Fetch(r, TokenCall(variant), AuthAttemptLogs(variant), "token")
    /\ UNCHANGED <<variant, PAYPAL_CLIENT_ID, PAYPAL_CLIENT_SECRET,
                   tokenResponse, orderResponse>>
    /\ UNCHANGED headerVars

TokenAnswers(r) ==
    {Rejected} \cup {Response(FALSE, t) : t \in TokenErrorBodies}
               \cup {Response(TRUE, TokenBody(r)), Response(TRUE, HtmlBody)}

\* The token fetch settles: the rest of getPayPalAccessToken, and
\* createPayPalOrder up to the order fetch.
TokenReply(r) ==
    /\ pc[r] = "token"
    /\ \E a \in TokenAnswers(r) :
         /\ tokenResponse' = [tokenResponse EXCEPT ![r] = a]
         /\ IF a.kind = "rejected" THEN Fail(r, FetchFailedMessage, <<>>)
            ELSE IF ~TokenResponseOk(a)
                 THEN Fail(r, TokenFailure(variant, a.text).message,
                           TokenFailure(variant, a.text).logs)
            ELSE IF ~JSONParse(a.text).ok THEN Fail(r, SyntaxErrorMessage, <<>>)
            ELSE Fetch(r,
                       OrderCall(AccessToken(r, JSONParse(a.text).value),
                                 OrderRequestBody(request[r].amount,
                                                  request[r].description,
                                                  Bool(Truthy(request[r].requiresShipping)))),
                       TokenSuccessLogs(variant), "order")
    /\ UNCHANGED <<variant, PAYPAL_CLIENT_ID, PAYPAL_CLIENT_SECRET,
                   request, orderResponse>>
    /\ UNCHANGED headerVars

OrderAnswers ==
    {Rejected} \cup {Response(FALSE, t) : t \in OrderErrorBodies}
               \cup {Response(TRUE, t) : t \in OrderBodies \cup {HtmlBody}}

\* The order fetch settles: the rest of createPayPalOrder and of POST.
OrderReply(r) ==
    /\ pc[r] = "order"
    /\ \E a \in OrderAnswers :
         /\ orderResponse' = [orderResponse EXCEPT ![r] = a]
         /\ IF a.kind = "rejected" THEN Fail(r, FetchFailedMessage, <<>>)
            ELSE IF ~OrderResponseOk(a)
                 THEN Fail(r, OrderFailure(variant, a.text).message,
                           OrderFailure(variant, a.text).logs)
            ELSE IF ~JSONParse(a.text).ok THEN Fail(r, SyntaxErrorMessage, <<>>)
            ELSE Finish(r, SuccessResponse(JSONParse(a.text).value),
                        OrderSuccessLogs(variant, JSONParse(a.text).value))
    /\ UNCHANGED <<variant, PAYPAL_CLIENT_ID, PAYPAL_CLIENT_SECRET,
                   request, tokenResponse>>
    /\ UNCHANGED headerVars

Next == \E r \in Requests : POST(r) \/ TokenReply(r) \/ OrderReply(r)

Spec == Init /\ [][Next]_vars

----------------------------------------------------------------------------
(* The state machine of the header; the gateway receives no request *)

HeaderInit ==
    /\ variant = "part_000"
    /\ PAYPAL_CLIENT_ID = Str(ClientId)
    /\ PAYPAL_CLIENT_SECRET = Str(ClientSecret)
    /\ pc = [r \in Requests |-> "idle"]
    /\ request = [r \in Requests |-> NoBody]
    /\ tokenResponse = [r \in Requests |-> NoResponse]
    /\ orderResponse = [r \in Requests |-> NoResponse]
    /\ calls = [r \in Requests |-> <<>>]
    /\ logs = [r \in Requests |-> <<>>]
    /\ response = [r \in Requests |-> <<>>]
    /\ user \in Users
    /\ route \in {"/", "/upload"}
    /\ view = Render(user)
    /\ signOuts = [k \in SignOuts |-> NoSignOut]
    /\ headerLogs = <<>>

\* router.push(path), or a click on <Link href={path}>
Navigate(path) ==
    /\ route' = path
    /\ UNCHANGED <<user, view, signOuts, headerLogs, gatewayVars>>

\* <Link href="/">
ClickLogo == Navigate("/")

\* <DropdownMenuItem onClick={() => router.push('/profile')}>
ClickProfile == view.affordance = "account-menu" /\ Navigate("/profile")

\* <Button onClick={() => router.push('/login')}>
ClickLogIn == view.affordance = "log-in-sign-up" /\ Navigate("/login")

\* <Button onClick={() => router.push('/signup')}>
ClickSignUp == view.affordance = "log-in-sign-up" /\ Navigate("/signup")

\* <DropdownMenuItem onClick={handleSignOut}>: handleSignOut up to the
\* await of signOut(auth).
ClickLogOut(k) ==
    /\ view.affordance = "account-menu"
    /\ signOuts[k].pc = "idle"
    /\ signOuts' = [signOuts EXCEPT ![k].pc = "await"]
    /\ UNCHANGED <<user, route, view, headerLogs, gatewayVars>>

\* signOut(auth) settles: the identity the provider reports, the header
\* rendered for it, and the rest of handleSignOut.
SignOutSettles(k) ==
    /\ signOuts[k].pc = "await"
    /\ \E outcome \in {"resolved", "rejected"} :
         /\ user' = IdentityAfterSignOut(user, outcome)
         /\ view' = Render(user')
         /\ signOuts' = [signOuts EXCEPT
                           ![k] = [pc |-> "done", outcome |-> outcome,
                                   pushed |-> AfterSignOut(outcome).pushed]]
         /\ route' = IF AfterSignOut(outcome).pushed = <<>> THEN route
                     ELSE AfterSignOut(outcome).pushed[Len(AfterSignOut(outcome).pushed)]
         /\ headerLogs' = headerLogs \o AfterSignOut(outcome).logs
    /\ UNCHANGED gatewayVars

\* The identity provider reports another identity (a sign-in, or a session
\* that ended elsewhere), and the header is rendered for it.
AuthStateChanged ==
    /\ \E u \in Users \ {user} :
         /\ user' = u
         /\ view' = Render(u)
    /\ UNCHANGED <<route, signOuts, headerLogs, gatewayVars>>

HeaderNext ==
    \/ ClickLogo
    \/ ClickProfile
    \/ ClickLogIn
    \/ ClickSignUp
    \/ \E k \in SignOuts : ClickLogOut(k) \/ SignOutSettles(k)
    \/ AuthStateChanged

HeaderSpec == HeaderInit /\ [][HeaderNext]_vars

----------------------------------------------------------------------------
(* Vocabulary of the properties *)

\* A field the body does not supply: absent (or null), or the empty string.
NotSupplied(v) == v \in {Undefined, Null, Str("")}

\* A request whose body parsed and supplies amount and description.
ValidRequest(r) ==
    /\ pc[r] # "idle"
    /\ request[r].json
    /\ ~NotSupplied(request[r].amount)
    /\ ~NotSupplied(request[r].description)

Responded(r) == Len(response[r]) = 1
Status(r) == response[r][1].status
ResponseBody(r) == response[r][1].body

\* The response is exactly { error: <a string> } with the given status.
IsErrorEnvelope(r, status) ==
    /\ Responded(r)
    /\ Status(r) = status
    /\ DOMAIN ResponseBody(r) = {"error"}
    /\ ResponseBody(r).error.type = "string"

ErrorMessage(r) == ResponseBody(r).error.val

CallsOfKind(r, kind) == {i \in 1..Len(calls[r]) : calls[r][i].kind = kind}

TokenRefused(r) == tokenResponse[r].kind = "response" /\ ~tokenResponse[r].ok
TokenGranted(r) ==
    /\ tokenResponse[r].kind = "response"
    /\ tokenResponse[r].ok
    /\ JSONParse(tokenResponse[r].text).ok
OrderRefused(r) == orderResponse[r].kind = "response" /\ ~orderResponse[r].ok
OrderCreated(r) ==
    /\ orderResponse[r].kind = "response"
    /\ orderResponse[r].ok
    /\ JSONParse(orderResponse[r].text).ok

\* s occurs in a text: it is the text, or a string value of the JSON text.
TextIncludes(text, s) ==
    \/ text = s
    \/ /\ JSONParse(text).ok
       /\ \E k \in DOMAIN JSONParse(text).value : JSONParse(text).value[k] = Str(s)

MessageIncludes(msg, s) == \E i \in 1..Len(msg) : TextIncludes(msg[i], s)

----------------------------------------------------------------------------
(* Properties *)

\* C1: a request whose body does not supply amount or does not supply
\* description is answered 400 with exactly
\* { error: "Missing amount or description in request body" }, and no
\* outbound call is issued for it.
C1_MissingFieldIs400 ==
    \A r \in Requests :
        ( /\ pc[r] # "idle"
          /\ request[r].json
          /\ NotSupplied(request[r].amount) \/ NotSupplied(request[r].description) )
        => /\ pc[r] = "done"
           /\ response[r] =
                << [status |-> 400,
                    body |-> [error |-> Str("Missing amount or description in request body")]] >>
           /\ calls[r] = <<>>

C1_Witness ==
    \E r \in Requests :
        /\ pc[r] = "done"
        /\ request[r].json
        /\ ~NotSupplied(request[r].amount)
        /\ request[r].description = Str("")
        /\ Status(r) = 400

\* C2: a valid request handled while the client identifier or the client
\* secret is absent from the configuration issues no outbound call and is
\* answered 500 with a message saying the credentials are not configured.
C2_NoCredentialsIs500 ==
    \A r \in Requests :
        ( /\ ValidRequest(r)
          /\ NotSupplied(PAYPAL_CLIENT_ID) \/ NotSupplied(PAYPAL_CLIENT_SECRET) )
        => /\ pc[r] = "done"
           /\ calls[r] = <<>>
           /\ IsErrorEnvelope(r, 500)
           /\ ErrorMessage(r) \in
                { <<"MISSING_PAYPAL_API_CREDENTIALS">>,
                  <<"PayPal API credentials are not configured on the server.">>,
                  <<"PayPal API credentials (PAYPAL_CLIENT_ID or PAYPAL_SECRET) are not configured on the server. Please check your Netlify environment variables.">> }

C2_Witness ==
    \E r \in Requests :
        /\ ValidRequest(r)
        /\ PAYPAL_CLIENT_ID = Str(ClientId)
        /\ NotSupplied(PAYPAL_CLIENT_SECRET)
        /\ pc[r] = "done"
        /\ Status(r) = 500

\* C3: when the token exchange and the order creation both succeed, the
\* response has status 200 and its body is the processor's order object,
\* field for field.
C3_OrderPassthrough ==
    \A r \in Requests :
        (pc[r] = "done" /\ TokenGranted(r) /\ OrderCreated(r))
        => response[r] =
             << [status |-> 200, body |-> JSONParse(orderResponse[r].text).value] >>

C3_Witness ==
    \E r \in Requests :
        /\ pc[r] = "done"
        /\ TokenGranted(r)
        /\ orderResponse[r] = Response(TRUE, PayerActionBody)
        /\ Status(r) = 200
        /\ DOMAIN ResponseBody(r) = {"id", "status", "error", "links"}

\* C4: when the token endpoint answers with a non-success status, no
\* order-creation call is issued for that request and it ends with a 500
\* response; an order-creation call is issued only after a successful
\* token exchange of the same request.
C4_TokenFailureShortCircuits ==
    \A r \in Requests :
        /\ TokenRefused(r)
           => /\ CallsOfKind(r, "order") = {}
              /\ pc[r] = "done"
              /\ IsErrorEnvelope(r, 500)
        /\ \A i \in CallsOfKind(r, "order") :
              /\ TokenGranted(r)
              /\ \E j \in CallsOfKind(r, "token") : j < i

C4_Witness ==
    \E r, q \in Requests :
        /\ TokenRefused(r) /\ pc[r] = "done" /\ Status(r) = 500
        /\ CallsOfKind(q, "order") # {}

\* C5: every response is either the order data (status 200) or an object
\* with the single string field error (status 400 or 500), never both and
\* never a partial result; each request is answered once, when it is done.
C5_UniformEnvelope ==
    \A r \in Requests :
        /\ Len(response[r]) = (IF pc[r] = "done" THEN 1 ELSE 0)
        /\ Responded(r)
           => /\ Status(r) \in {200, 400, 500}
              /\ Status(r) = 200
                 => /\ OrderCreated(r)
                    /\ ResponseBody(r) = JSONParse(orderResponse[r].text).value
              /\ Status(r) \in {400, 500}
                 => /\ IsErrorEnvelope(r, Status(r))
                    /\ ~OrderCreated(r)

C5_Witness ==
    \E r, q \in Requests :
        /\ Responded(r) /\ Status(r) = 200
        /\ Responded(q) /\ Status(q) = 500 /\ OrderRefused(q)

\* C6: when the token exchange fails with a non-success response, the error
\* message of the 500 response contains neither the client identifier, nor
\* the client secret, nor the Basic authorization value, nor the body of
\* the token endpoint's response.
C6_NoUpstreamLeak ==
    \A r \in Requests :
        (pc[r] = "done" /\ TokenRefused(r))
        => /\ IsErrorEnvelope(r, 500)
           /\ ~MessageIncludes(ErrorMessage(r), ClientId)
           /\ ~MessageIncludes(ErrorMessage(r), ClientSecret)
           /\ ~MessageIncludes(ErrorMessage(r), Join(BasicAuthorization))
           /\ ~MessageIncludes(ErrorMessage(r), Join(Base64(<<ClientId, ":", ClientSecret>>)))
           /\ ~MessageIncludes(ErrorMessage(r), tokenResponse[r].text)

\* C7: when the order-creation call returns a non-success response, the
\* response is a 500 whose message carries the human-readable detail of the
\* body when the body parses as structured error data, and the raw error
\* text otherwise.
C7_OrderErrorDetail ==
    \A r \in Requests :
        (pc[r] = "done" /\ OrderRefused(r))
        => /\ IsErrorEnvelope(r, 500)
           /\ LET errorJson == JSONParse(orderResponse[r].text)
                  detail == Or(Get(errorJson.value, "details0description"),
                               Get(errorJson.value, "message"))
              IN IF errorJson.ok
                 THEN MessageIncludes(ErrorMessage(r), Join(detail.val))
                 ELSE MessageIncludes(ErrorMessage(r), orderResponse[r].text)

\* C8: in every order-creation call the shipping preference is
\* GET_FROM_FILE when the request's requiresShipping is true and
\* NO_SHIPPING when it is false, absent or another falsy value; the intent
\* is CAPTURE, the currency USD, and the amount and the description are
\* those of the request.
C8_OrderCallFields ==
    \A r \in Requests : \A i \in CallsOfKind(r, "order") :
        LET body == calls[r][i].body IN
        /\ request[r].requiresShipping = Bool(TRUE)
           => body.shipping_preference = "GET_FROM_FILE"
        /\ request[r].requiresShipping \in {Bool(FALSE), Undefined, Null, Num("0"), Str("")}
           => body.shipping_preference = "NO_SHIPPING"
        /\ body.intent = "CAPTURE"
        /\ body.currency_code = "USD"
        /\ body.value = request[r].amount
        /\ body.description = request[r].description

C8_Witness ==
    \E r, q \in Requests :
        /\ request[r].requiresShipping = Bool(TRUE) /\ CallsOfKind(r, "order") # {}
        /\ request[q].requiresShipping = Undefined /\ CallsOfKind(q, "order") # {}

\* C9: when the token endpoint returns a non-success response whose body is
\* JSON with error equal to 'invalid_client', the error string of the 500
\* response is the client-authentication diagnostic ('PayPal client
\* authentication failed. ...'); for any other failing body it is the
\* generic 'Failed to get access token from PayPal' message.
C9_InvalidClientDiagnostic ==
    \A r \in Requests :
        (pc[r] = "done" /\ TokenRefused(r))
        => /\ IsErrorEnvelope(r, 500)
           /\ LET errorJson == JSONParse(tokenResponse[r].text) IN
              IF errorJson.ok /\ Get(errorJson.value, "error") = Str("invalid_client")
              THEN ErrorMessage(r) \in
                     { <<"PayPal client authentication failed. Please check server configuration and credentials.">>,
                       <<"PayPal client authentication failed. Please check server configuration.">>,
                       <<"PayPal client authentication failed. Please check server configuration and credentials on Netlify.">> }
              ELSE ErrorMessage(r) \in
                     { <<"Failed to get access token from PayPal. Check server logs for details.">>,
                       <<"Failed to get access token from PayPal.">> }

\* C10: under every interleaving each request issues at most one token call
\* and then at most one order-creation call, none repeated after a failure;
\* a request answered 200 has issued exactly the two; and the bearer token
\* of a request's order-creation call is the token returned to that same
\* request's token call, never a token obtained by another request.
C10_OwnTokenNoRetry ==
    \A r \in Requests :
        /\ Len(calls[r]) <= 2
        /\ Len(calls[r]) >= 1 => calls[r][1].kind = "token"
        /\ Len(calls[r]) = 2 => calls[r][2].kind = "order"
        /\ (Responded(r) /\ Status(r) = 200) => Len(calls[r]) = 2
        /\ \A i \in CallsOfKind(r, "order") :
              /\ TokenGranted(r)
              /\ calls[r][i].authorization =
                   <<"Bearer ">> \o JSONParse(tokenResponse[r].text).value.access_token.val
              /\ \A q \in Requests \ {r} :
                    TokenGranted(q)
                    => calls[r][i].authorization #
                         <<"Bearer ">> \o JSONParse(tokenResponse[q].text).value.access_token.val

C10_Witness ==
    \E r, q \in Requests :
        /\ r # q
        /\ pc[r] = "order" /\ pc[q] = "order"
        /\ calls[r][2].authorization # calls[q][2].authorization

\* C11: an invocation of handleSignOut pushes the route '/' only once the
\* identity provider's sign-out has completed successfully; when the
\* sign-out fails it pushes nothing, and the step in which it fails only
\* logs the error: the identity, what the header shows and the route are
\* left as they were.  The header shows the log-in / sign-up buttons
\* exactly when no identity is present, and the account menu otherwise.
C11_SignOutState ==
    /\ \A k \in SignOuts :
          /\ signOuts[k].pushed # <<>>
             => signOuts[k].outcome = "resolved" /\ signOuts[k].pushed = <<"/">>
          /\ signOuts[k].outcome = "rejected" => signOuts[k].pushed = <<>>
    /\ view.affordance = "log-in-sign-up" <=> user = Null
    /\ view.affordance = "account-menu" <=> user \in Identities

C11_SignOutFailureStep ==
    \A k \in SignOuts :
        (signOuts[k].pc = "await" /\ signOuts'[k].outcome = "rejected")
        => /\ user' = user
           /\ view' = view
           /\ route' = route
           /\ headerLogs' = Append(headerLogs, <<"Error signing out: ">> \o SignOutErrorMessage)

C11_SignOut == []C11_SignOutState /\ [][C11_SignOutFailureStep]_vars

C11_Witness ==
    \E k, j \in SignOuts :
        /\ signOuts[k].pc = "done" /\ signOuts[k].outcome = "rejected"
        /\ signOuts[k].pushed = <<>>
        /\ headerLogs # <<>>
        /\ signOuts[j].pc = "done" /\ signOuts[j].outcome = "resolved"
        /\ signOuts[j].pushed = <<"/">>
        /\ route = "/"
        /\ view.affordance = "log-in-sign-up"

====
